---- MODULE Spec2Model ----
(***************************************************************************)
(* Model of the beverage factory of src/usine.py and src/boisson.py:       *)
(* Stock, ProcessusProduction, LigneProduction and Usine, driven through   *)
(* their public methods by a single thread.                                *)
(*                                                                         *)
(* Quantities are floats in the source; the model uses integers, on which  *)
(* the comparisons, additions and subtractions of the source are exact.    *)
(* An Optional value is the empty sequence (None) or a one-element         *)
(* sequence (a set value).  The clock advances between two calls; the      *)
(* datetime.now() readings made inside one call all give the same value.   *)
(* A lot number is the pair of the line name and the clock value cut to    *)
(* whole seconds, as the f-string of demarrer_production builds it.        *)
(* Every request is made with a Boisson object that no line has seen yet,  *)
(* as the drivers of the repository do, except under SpecResoumission,     *)
(* where the factory is handed objects it has already produced.  A Python  *)
(* dict is a function together with the list of its keys in insertion      *)
(* order, kept where the code iterates over the dict.                      *)
(***************************************************************************)
EXTENDS Integers, Sequences, FiniteSets, TLC

VARIABLES
    horloge,                 \* datetime.now(), in clock ticks
    stock,                   \* Usine.stock: [ingredients, seuils_alerte]
    lignes,                  \* the LigneProduction objects, by identity
    boissons,                \* the Boisson objects, by identity
    lignes_production,       \* Usine.lignes_production
    production_journaliere,  \* Usine.production_journaliere
    appel,                   \* the last call made: method, arguments, result
    taches                   \* the produire_boisson calls running in threads

vars == <<horloge, stock, lignes, boissons, lignes_production,
          production_journaliere, appel, taches>>

----------------------------------------------------------------------------
(* Bounds of the model *)

MaxQte == 2          \* largest quantity of one ingredient, of either sign

MaxHorloge == 2      \* last clock tick explored

\* strftime('%Y%m%d%H%M%S') keeps whole seconds: clock ticks in one second
TicksParSeconde == 2

MaxEtapes == 3       \* longest list of steps of a process run alone

MaxProduction == 2   \* beverages produced when objects are handed in again

MaxVolume == 60      \* largest volume of an Eau whose cost is computed

----------------------------------------------------------------------------
(* Optional values *)

None == <<>>

Some(v) == <<v>>

----------------------------------------------------------------------------
(* The objects the driver constructs *)

Noms == {"eau", "mineraux"}

\* Ingredient(nom, quantite)
Ingredient(n, q) == [nom |-> n, quantite |-> q]

\* the objects of class Eau
Eaux == {"eau_plate", "eau_double"}

Boissons == Eaux \cup {"soda"}

\* boisson.__class__.__name__
classe_de(b) == IF b \in Eaux THEN "Eau" ELSE "Soda"

\* Boisson.ingredients: an ordered list, names may repeat
ingredients_de(b) ==
    CASE b = "eau_plate" ->
             <<Ingredient("eau", 1), Ingredient("mineraux", 1)>>
      [] b = "eau_double" ->
             <<Ingredient("eau", 1), Ingredient("eau", 1),
               Ingredient("mineraux", 1)>>
      [] OTHER -> <<Ingredient("eau", 1)>>

\* Boisson.volume, in litres
volume_de(b) == 1

Lignes == {"L1", "L2"}

\* LigneProduction.processus.etapes: the names of the steps, in order
etapes_de(l) ==
    IF l = "L1" THEN <<"preparation", "embouteillage">> ELSE <<"filtrage">>

\* the ingredient lists handed to Stock.verifier_disponibilite
Requetes == {ingredients_de(b) : b \in Boissons}
            \cup {<<>>, <<Ingredient("mineraux", 2)>>}

\* the quantities consumed and delivered
QtesConso == {1, 2}

\* the quantities handed to Stock.ajouter_ingredient: the sign is not checked
QtesAjout == QtesConso \cup {-1}

SeuilDefaut == 10

Seuils == {1, SeuilDefaut}

----------------------------------------------------------------------------
(* Stock *)

\* Stock.__init__: two empty dicts; ordre is the list of the keys of
\* ingredients in the order a Python dict iterates, the order of insertion
StockVide == [ingredients |-> <<>>, seuils_alerte |-> <<>>, ordre |-> <<>>]

\* dict assignment d[k] = v
Affecter(d, k, v) == [x \in (DOMAIN d) \cup {k} |-> IF x = k THEN v ELSE d[x]]

\* ajouter_ingredient that sets the threshold of a name already in stock
ajouter_ingredient_seuil_ecrase(s, nom, quantite, seuil_alerte) ==
    IF nom \in DOMAIN s.ingredients
    THEN [s EXCEPT !.ingredients =
              Affecter(s.ingredients, nom, s.ingredients[nom] + quantite),
                   !.seuils_alerte =
              Affecter(s.seuils_alerte, nom, seuil_alerte)]
    ELSE [ingredients |-> Affecter(s.ingredients, nom, quantite),
          seuils_alerte |-> Affecter(s.seuils_alerte, nom, seuil_alerte),
          ordre |-> Append(s.ordre, nom)]

\* ajouter_ingredient that records no threshold for a new name
ajouter_ingredient_sans_seuil(s, nom, quantite, seuil_alerte) ==
    IF nom \in DOMAIN s.ingredients
    THEN [s EXCEPT !.ingredients =
              Affecter(s.ingredients, nom, s.ingredients[nom] + quantite)]
    ELSE [s EXCEPT !.ingredients = Affecter(s.ingredients, nom, quantite),
                   !.ordre = Append(s.ordre, nom)]

\* Stock.ajouter_ingredient
ajouter_ingredient(s, nom, quantite, seuil_alerte) ==
    IF nom \in DOMAIN s.ingredients
    THEN [s EXCEPT !.ingredients =
              Affecter(s.ingredients, nom, s.ingredients[nom] + quantite)]
    ELSE [ingredients |-> Affecter(s.ingredients, nom, quantite),
          seuils_alerte |-> Affecter(s.seuils_alerte, nom, seuil_alerte),
          ordre |-> Append(s.ordre, nom)]

\* consommer_ingredient that reports success without taking the quantity
consommer_ingredient_sans_retrait(s, nom, quantite) ==
    IF nom \notin DOMAIN s.ingredients
    THEN [stock |-> s, ret |-> FALSE]
    ELSE [stock |-> s, ret |-> s.ingredients[nom] >= quantite]

\* consommer_ingredient that does not compare the quantity with the stock
consommer_ingredient_sans_controle(s, nom, quantite) ==
    IF nom \notin DOMAIN s.ingredients
    THEN [stock |-> s, ret |-> FALSE]
    ELSE [stock |-> [s EXCEPT !.ingredients =
              Affecter(s.ingredients, nom, s.ingredients[nom] - quantite)],
          ret |-> TRUE]

\* consommer_ingredient that refuses a quantity equal to the stock
consommer_ingredient_strict(s, nom, quantite) ==
    IF nom \notin DOMAIN s.ingredients
    THEN [stock |-> s, ret |-> FALSE]
    ELSE IF s.ingredients[nom] > quantite
         THEN [stock |-> [s EXCEPT !.ingredients =
                   Affecter(s.ingredients, nom, s.ingredients[nom] - quantite)],
               ret |-> TRUE]
         ELSE [stock |-> s, ret |-> FALSE]

\* Stock.consommer_ingredient: the stock afterwards and the value returned
consommer_ingredient(s, nom, quantite) ==
    IF nom \notin DOMAIN s.ingredients
    THEN [stock |-> s, ret |-> FALSE]
    ELSE IF s.ingredients[nom] >= quantite
         THEN [stock |-> [s EXCEPT !.ingredients =
                   Affecter(s.ingredients, nom, s.ingredients[nom] - quantite)],
               ret |-> TRUE]
         ELSE [stock |-> s, ret |-> FALSE]

\* verifier_disponibilite that skips the names the stock does not hold
verifier_disponibilite_sans_absents(s, ingredients_requis) ==
    \A i \in DOMAIN ingredients_requis :
        ingredients_requis[i].nom \in DOMAIN s.ingredients
        => s.ingredients[ingredients_requis[i].nom]
               >= ingredients_requis[i].quantite

\* verifier_disponibilite that refuses a quantity equal to the stock
verifier_disponibilite_strict(s, ingredients_requis) ==
    \A i \in DOMAIN ingredients_requis :
        /\ ingredients_requis[i].nom \in DOMAIN s.ingredients
        /\ ~(s.ingredients[ingredients_requis[i].nom]
                 <= ingredients_requis[i].quantite)

\* Stock.verifier_disponibilite: the loop over ingredients_requis
RECURSIVE verifier_disponibilite(_, _)
verifier_disponibilite(s, ingredients_requis) ==
    IF ingredients_requis = <<>>
    THEN TRUE
    ELSE LET ingredient == Head(ingredients_requis) IN
         IF ingredient.nom \notin DOMAIN s.ingredients
         THEN FALSE
         ELSE IF s.ingredients[ingredient.nom] < ingredient.quantite
              THEN FALSE
              ELSE verifier_disponibilite(s, Tail(ingredients_requis))

\* dict.get(k, defaut)
Obtenir(d, k, defaut) == IF k \in DOMAIN d THEN d[k] ELSE defaut

\* f"Stock faible: {nom} ({quantite} unités restantes)"
Alerte(nom, quantite) == [nom |-> nom, quantite |-> quantite]

\* Stock.obtenir_alertes, the loop over self.ingredients.items(), here over
\* the keys noms
RECURSIVE alertes_de(_, _)
alertes_de(s, noms) ==
    IF noms = <<>>
    THEN <<>>
    ELSE LET nom == Head(noms)
             quantite == s.ingredients[nom] IN
         (IF quantite <= Obtenir(s.seuils_alerte, nom, 0)
          THEN <<Alerte(nom, quantite)>>
          ELSE <<>>) \o alertes_de(s, Tail(noms))

\* obtenir_alertes that leaves out a quantity equal to its threshold
obtenir_alertes_strict(s) ==
    SelectSeq(alertes_de(s, s.ordre),
              LAMBDA a : a.quantite < Obtenir(s.seuils_alerte, a.nom, 0))

\* Stock.obtenir_alertes
obtenir_alertes(s) == alertes_de(s, s.ordre)

----------------------------------------------------------------------------
(* Boisson *)

\* Boisson.__init__: date_production and numero_lot start as None
BoissonNeuve == [numero_lot |-> None, date_production |-> None]

\* definir_lot that sets the lot number and forgets the date
definir_lot_sans_date(bs, b, numero_lot, t) ==
    [bs EXCEPT ![b].numero_lot = Some(numero_lot)]

\* Boisson.definir_lot, at clock value t
definir_lot(bs, b, numero_lot, t) ==
    [bs EXCEPT ![b] = [numero_lot |-> Some(numero_lot),
                       date_production |-> Some(t)]]

\* Eau.calculer_cout_production, for a volume in litres: the cost in
\* hundredths of a euro, 0.5 euro per litre, times 1.2 for sparkling water
calculer_cout_production(volume, est_gazeuse) ==
    LET cout_base == volume * 50 IN
    IF est_gazeuse THEN (cout_base * 12) \div 10 ELSE cout_base

----------------------------------------------------------------------------
(* EtapeProduction and ProcessusProduction *)

Etapes == UNION {{etapes_de(l)[i] : i \in DOMAIN etapes_de(l)} : l \in Lignes}

\* EtapeProduction.executer: True in the base class; a subclass may override
\* it, and pannes is the set of steps whose override returns False
executer(etape, pannes) == etape \notin pannes

\* EtapeProduction.duree_minutes of the steps the driver constructs
duree_de(etape) ==
    CASE etape = "preparation" -> 5
      [] etape = "embouteillage" -> 12
      [] OTHER -> 8

\* calculer_duree_totale that counts a step listed twice only once
calculer_duree_totale_sans_doublons(etapes) ==
    LET listees == {etapes[i] : i \in DOMAIN etapes} IN
    (IF "preparation" \in listees THEN duree_de("preparation") ELSE 0)
    + (IF "embouteillage" \in listees THEN duree_de("embouteillage") ELSE 0)
    + (IF "filtrage" \in listees THEN duree_de("filtrage") ELSE 0)

\* ProcessusProduction.calculer_duree_totale: sum() over self.etapes
RECURSIVE calculer_duree_totale(_)
calculer_duree_totale(etapes) ==
    IF etapes = <<>>
    THEN 0
    ELSE duree_de(Head(etapes)) + calculer_duree_totale(Tail(etapes))

\* executer_processus that goes on with the later steps after a failure
RECURSIVE executer_processus_sans_arret(_, _)
executer_processus_sans_arret(etapes, pannes) ==
    IF etapes = <<>>
    THEN [ret |-> TRUE, executees |-> <<>>]
    ELSE LET suite == executer_processus_sans_arret(Tail(etapes), pannes) IN
         [ret |-> executer(Head(etapes), pannes) /\ suite.ret,
          executees |-> <<Head(etapes)>> \o suite.executees]

\* ProcessusProduction.executer_processus: the loop over self.etapes; the
\* value returned and the steps whose executer was called, in call order
RECURSIVE executer_processus(_, _)
executer_processus(etapes, pannes) ==
    IF etapes = <<>>
    THEN [ret |-> TRUE, executees |-> <<>>]
    ELSE IF ~executer(Head(etapes), pannes)
         THEN [ret |-> FALSE, executees |-> <<Head(etapes)>>]
         ELSE LET suite == executer_processus(Tail(etapes), pannes) IN
              [ret |-> suite.ret,
               executees |-> <<Head(etapes)>> \o suite.executees]

----------------------------------------------------------------------------
(* LigneProduction *)

\* LigneProduction.__init__
LigneNeuve == [est_active |-> FALSE,
               production_actuelle |-> None,
               heure_debut_production |-> None,
               historique_production |-> <<>>]

\* strftime('%Y%m%d%H%M%S'): the clock value cut to whole seconds
strftime(t) == t \div TicksParSeconde

\* f"{self.nom}-{datetime.now().strftime(...)}"
format_lot(nom, t) == [ligne |-> nom, horodatage |-> strftime(t)]

\* demarrer_production without the test of est_active
demarrer_production_sans_garde(ls, bs, l, b, t, pannes) ==
    [lignes |-> [ls EXCEPT ![l].est_active = TRUE,
                           ![l].production_actuelle = Some(b),
                           ![l].heure_debut_production = Some(t)],
     boissons |-> definir_lot(bs, b, format_lot(l, t), t),
     ret |-> executer_processus(etapes_de(l), pannes).ret]

\* demarrer_production that frees the line when the process fails
demarrer_production_liberee(ls, bs, l, b, t, pannes) ==
    IF ls[l].est_active
    THEN [lignes |-> ls, boissons |-> bs, ret |-> FALSE]
    ELSE IF executer_processus(etapes_de(l), pannes).ret
         THEN [lignes |-> [ls EXCEPT ![l].est_active = TRUE,
                                     ![l].production_actuelle = Some(b),
                                     ![l].heure_debut_production = Some(t)],
               boissons |-> definir_lot(bs, b, format_lot(l, t), t),
               ret |-> TRUE]
         ELSE [lignes |-> ls,
               boissons |-> definir_lot(bs, b, format_lot(l, t), t),
               ret |-> FALSE]

\* demarrer_production that gives the lot once the process has succeeded
demarrer_production_lot_apres(ls, bs, l, b, t, pannes) ==
    IF ls[l].est_active
    THEN [lignes |-> ls, boissons |-> bs, ret |-> FALSE]
    ELSE LET reussi == executer_processus(etapes_de(l), pannes).ret IN
         [lignes |-> [ls EXCEPT ![l].est_active = TRUE,
                                ![l].production_actuelle = Some(b),
                                ![l].heure_debut_production = Some(t)],
          boissons |-> IF reussi
                       THEN definir_lot(bs, b, format_lot(l, t), t)
                       ELSE bs,
          ret |-> reussi]

\* LigneProduction.demarrer_production, at clock value t: the lines and the
\* beverages afterwards and the value returned
demarrer_production(ls, bs, l, b, t, pannes) ==
    IF ls[l].est_active
    THEN [lignes |-> ls, boissons |-> bs, ret |-> FALSE]
    ELSE [lignes |-> [ls EXCEPT ![l].est_active = TRUE,
                                ![l].production_actuelle = Some(b),
                                ![l].heure_debut_production = Some(t)],
          boissons |-> definir_lot(bs, b, format_lot(l, t), t),
          ret |-> executer_processus(etapes_de(l), pannes).ret]

\* terminer_production that records the batch and leaves the line active
terminer_production_sans_remise(ls, bs, l, t) ==
    IF ~ls[l].est_active
    THEN [lignes |-> ls, ret |-> None]
    ELSE LET boisson_produite == ls[l].production_actuelle[1] IN
         [lignes |-> [ls EXCEPT
              ![l].historique_production = Append(@,
                  [boisson |-> boisson_produite,
                   lot |-> bs[boisson_produite].numero_lot,
                   debut |-> ls[l].heure_debut_production,
                   fin |-> t,
                   volume |-> volume_de(boisson_produite)]),
              ![l].production_actuelle = None,
              ![l].heure_debut_production = None],
          ret |-> Some(boisson_produite)]

\* terminer_production that writes a record for a line that is not active
terminer_production_sans_garde(ls, bs, l, t) ==
    IF ~ls[l].est_active
    THEN [lignes |-> [ls EXCEPT
              ![l].historique_production = Append(@,
                  [boisson |-> "",
                   lot |-> None,
                   debut |-> ls[l].heure_debut_production,
                   fin |-> t,
                   volume |-> 0])],
          ret |-> None]
    ELSE LET boisson_produite == ls[l].production_actuelle[1] IN
         [lignes |-> [ls EXCEPT
              ![l].historique_production = Append(@,
                  [boisson |-> boisson_produite,
                   lot |-> bs[boisson_produite].numero_lot,
                   debut |-> ls[l].heure_debut_production,
                   fin |-> t,
                   volume |-> volume_de(boisson_produite)]),
              ![l].est_active = FALSE,
              ![l].production_actuelle = None,
              ![l].heure_debut_production = None],
          ret |-> Some(boisson_produite)]

\* terminer_production that keeps the start time of the batch
terminer_production_heure_gardee(ls, bs, l, t) ==
    IF ~ls[l].est_active
    THEN [lignes |-> ls, ret |-> None]
    ELSE LET boisson_produite == ls[l].production_actuelle[1] IN
         [lignes |-> [ls EXCEPT
              ![l].historique_production = Append(@,
                  [boisson |-> boisson_produite,
                   lot |-> bs[boisson_produite].numero_lot,
                   debut |-> ls[l].heure_debut_production,
                   fin |-> t,
                   volume |-> volume_de(boisson_produite)]),
              ![l].est_active = FALSE,
              ![l].production_actuelle = None],
          ret |-> Some(boisson_produite)]

\* terminer_production that writes no record
terminer_production_sans_record(ls, bs, l, t) ==
    IF ~ls[l].est_active
    THEN [lignes |-> ls, ret |-> None]
    ELSE [lignes |-> [ls EXCEPT ![l].est_active = FALSE,
                                ![l].production_actuelle = None,
                                ![l].heure_debut_production = None],
          ret |-> Some(ls[l].production_actuelle[1])]

\* LigneProduction.terminer_production, at clock value t: the lines
\* afterwards and the Optional[Boisson] returned
terminer_production(ls, bs, l, t) ==
    IF ~ls[l].est_active
    THEN [lignes |-> ls, ret |-> None]
    ELSE LET boisson_produite == ls[l].production_actuelle[1] IN
         [lignes |-> [ls EXCEPT
              ![l].historique_production = Append(@,
                  [boisson |-> boisson_produite,
                   lot |-> bs[boisson_produite].numero_lot,
                   debut |-> ls[l].heure_debut_production,
                   fin |-> t,
                   volume |-> volume_de(boisson_produite)]),
              ![l].est_active = FALSE,
              ![l].production_actuelle = None,
              ![l].heure_debut_production = None],
          ret |-> Some(boisson_produite)]

----------------------------------------------------------------------------
(* Usine *)

\* the scan for a free line that takes the first line whatever its state
ligne_disponible_premiere(ls, lp) ==
    IF lp = <<>> THEN None ELSE Some(lp[1])

\* the scan for a free line that keeps the last free line it meets
ligne_disponible_derniere(ls, lp) ==
    LET libres == {i \in DOMAIN lp : ~ls[lp[i]].est_active} IN
    IF libres = {}
    THEN None
    ELSE Some(lp[CHOOSE i \in libres : \A j \in libres : i >= j])

\* Usine.produire_boisson, the scan for a free line: the first line of
\* lignes_production that is not active, or None
ligne_disponible(ls, lp) ==
    LET libres == {i \in DOMAIN lp : ~ls[lp[i]].est_active} IN
    IF libres = {}
    THEN None
    ELSE Some(lp[CHOOSE i \in libres : \A j \in libres : i <= j])

\* the consumption loop that gives back what it took when a consumption
\* fails
RECURSIVE consommer_ingredients_annulee(_, _)
consommer_ingredients_annulee(s, ingredients) ==
    IF ingredients = <<>>
    THEN [stock |-> s, ret |-> TRUE]
    ELSE LET r == consommer_ingredient(s, Head(ingredients).nom,
                                       Head(ingredients).quantite) IN
         IF ~r.ret
         THEN [stock |-> s, ret |-> FALSE]
         ELSE LET suite == consommer_ingredients_annulee(r.stock,
                                                         Tail(ingredients)) IN
              IF suite.ret THEN suite ELSE [stock |-> s, ret |-> FALSE]

\* Usine.produire_boisson, the consumption loop: the stock afterwards and
\* whether every consommer_ingredient returned True; the loop stops at the
\* first one that returns False
RECURSIVE consommer_ingredients(_, _)
consommer_ingredients(s, ingredients) ==
    IF ingredients = <<>>
    THEN [stock |-> s, ret |-> TRUE]
    ELSE LET r == consommer_ingredient(s, Head(ingredients).nom,
                                       Head(ingredients).quantite) IN
         IF ~r.ret
         THEN [stock |-> r.stock, ret |-> FALSE]
         ELSE consommer_ingredients(r.stock, Tail(ingredients))

\* the return of produire_boisson that reports True when the start of the
\* production failed
Issue_demarrage_vrai(s, ls, bs, pj, ret, etape, ligne) ==
    [stock |-> s, lignes |-> ls, boissons |-> bs,
     production_journaliere |-> pj, ret |-> ret \/ etape = "demarrage",
     etape |-> etape, ligne |-> ligne]

\* the state Usine.produire_boisson leaves and the value it returns;
\* etape names the place the call returned from
Issue(s, ls, bs, pj, ret, etape, ligne) ==
    [stock |-> s, lignes |-> ls, boissons |-> bs,
     production_journaliere |-> pj, ret |-> ret, etape |-> etape,
     ligne |-> ligne]

\* Usine.produire_boisson, at clock value t
produire_boisson(s, ls, bs, lp, pj, b, t, pannes) ==
    IF ~verifier_disponibilite(s, ingredients_de(b))
    THEN Issue(s, ls, bs, pj, FALSE, "stock", None)
    ELSE
    LET dispo == ligne_disponible(ls, lp) IN
    IF dispo = None
    THEN Issue(s, ls, bs, pj, FALSE, "ligne", None)
    ELSE
    LET l == dispo[1]
        c == consommer_ingredients(s, ingredients_de(b)) IN
    IF ~c.ret
    THEN Issue(c.stock, ls, bs, pj, FALSE, "consommation", dispo)
    ELSE
    LET d == demarrer_production(ls, bs, l, b, t, pannes) IN
    IF ~d.ret
    THEN Issue(c.stock, d.lignes, d.boissons, pj, FALSE, "demarrage", dispo)
    ELSE
    LET f == terminer_production(d.lignes, d.boissons, l, t) IN
    IF f.ret = None
    THEN Issue(c.stock, f.lignes, d.boissons, pj, FALSE, "fin", dispo)
    ELSE Issue(c.stock, f.lignes, d.boissons, Append(pj, f.ret[1]), TRUE,
               "produite", dispo)

\* the count by class that starts each class again at 1
RECURSIVE compter_types_sans_cumul(_, _)
compter_types_sans_cumul(types, pj) ==
    IF pj = <<>>
    THEN types
    ELSE compter_types_sans_cumul(Affecter(types, classe_de(Head(pj)), 1),
                                  Tail(pj))

\* Usine.obtenir_statistiques, the loop over production_journaliere that
\* counts the beverages by class
RECURSIVE compter_types(_, _)
compter_types(types, pj) ==
    IF pj = <<>>
    THEN types
    ELSE LET type_boisson == classe_de(Head(pj)) IN
         compter_types(Affecter(types, type_boisson,
                                Obtenir(types, type_boisson, 0) + 1),
                       Tail(pj))

\* Usine.obtenir_statistiques
obtenir_statistiques(ls, lp, pj) ==
    [total_boissons_produites |-> Len(pj),
     lignes_actives |-> Cardinality({i \in DOMAIN lp : ls[lp[i]].est_active}),
     total_lignes |-> Len(lp),
     types_boissons |-> compter_types(<<>>, pj)]

----------------------------------------------------------------------------
(* The calls of the driver, one action per public method *)

\* the record of a call: the method, its arguments (each in a field of its
\* own, empty when the method has none), the value returned, written as
\* Python prints it, and for produire_boisson the place it returned from
\* (each one prints its own message)
AppelVide == [op |-> "init", ligne |-> "", boisson |-> "", pannes |-> {},
              nom |-> "", quantite |-> 0, seuil |-> 0, requis |-> <<>>,
              ret |-> "None", etape |-> "", processus |-> <<>>,
              executees |-> <<>>, alertes |-> <<>>, duree |-> 0,
              volume |-> 0, est_gazeuse |-> FALSE, cout |-> 0,
              stats |-> [total_boissons_produites |-> 0, lignes_actives |-> 0,
                         total_lignes |-> 0, types_boissons |-> <<>>]]

\* a bool as Python prints it
Bool(v) == IF v THEN "True" ELSE "False"

\* an Optional[Boisson] as the name of the beverage, or "None"
Optionnel(v) == IF v = None THEN "None" ELSE v[1]

\* the threads that call usine.produire_boisson
Fils == {"t1", "t2"}

\* a thread that has not called yet: pc is the place of the call in
\* produire_boisson, boisson its argument, ligne its local ligne_disponible,
\* k the position of the consumption loop, ret the value returned and etape
\* the place it returned from
TacheVide == [pc |-> "repos", boisson |-> "", ligne |-> "", k |-> 0,
              ret |-> "None", etape |-> ""]

\* the state after construction: Usine.__init__, Stock.__init__,
\* LigneProduction.__init__ and Boisson.__init__
Init ==
    /\ horloge = 0
    /\ stock = StockVide
    /\ lignes = [l \in Lignes |-> LigneNeuve]
    /\ boissons = [b \in Boissons |-> BoissonNeuve]
    /\ lignes_production = <<>>
    /\ production_journaliere = <<>>
    /\ appel = AppelVide
    /\ taches = [p \in Fils |-> TacheVide]

\* time passes between two calls
Attendre ==
    /\ horloge < MaxHorloge
    /\ horloge' = horloge + 1
    /\ appel' = [AppelVide EXCEPT !.op = "attendre"]
    /\ UNCHANGED <<taches, stock, lignes, boissons, lignes_production,
                   production_journaliere>>

\* usine.stock.ajouter_ingredient(nom, quantite, seuil)
AjouterIngredient(nom, quantite, seuil) ==
    LET s == ajouter_ingredient(stock, nom, quantite, seuil) IN
    /\ s.ingredients[nom] \in -MaxQte..MaxQte
    /\ stock' = s
    /\ appel' = [AppelVide EXCEPT !.op = "ajouter_ingredient", !.nom = nom,
                                 !.quantite = quantite, !.seuil = seuil]
    /\ UNCHANGED <<taches, horloge, lignes, boissons, lignes_production,
                   production_journaliere>>

\* usine.stock.consommer_ingredient(nom, quantite)
ConsommerIngredient(nom, quantite) ==
    LET r == consommer_ingredient(stock, nom, quantite) IN
    /\ stock' = r.stock
    /\ appel' = [AppelVide EXCEPT !.op = "consommer_ingredient", !.nom = nom,
                                 !.quantite = quantite, !.ret = Bool(r.ret)]
    /\ UNCHANGED <<taches, horloge, lignes, boissons, lignes_production,
                   production_journaliere>>

\* usine.stock.verifier_disponibilite(ingredients_requis)
VerifierDisponibilite(ingredients_requis) ==
    /\ appel' = [AppelVide EXCEPT
                    !.op = "verifier_disponibilite",
                    !.requis = ingredients_requis,
                    !.ret = Bool(verifier_disponibilite(stock,
                                                        ingredients_requis))]
    /\ UNCHANGED <<taches, horloge, stock, lignes, boissons, lignes_production,
                   production_journaliere>>

\* usine.stock.obtenir_alertes()
ObtenirAlertes ==
    /\ appel' = [AppelVide EXCEPT !.op = "obtenir_alertes", !.ret = "list",
                                 !.alertes = obtenir_alertes(stock)]
    /\ UNCHANGED <<taches, horloge, stock, lignes, boissons, lignes_production,
                   production_journaliere>>

\* usine.ajouter_ligne_production(ligne)
AjouterLigneProduction(l) ==
    /\ lignes_production' = Append(lignes_production, l)
    /\ appel' = [AppelVide EXCEPT !.op = "ajouter_ligne_production",
                                 !.ligne = l]
    /\ UNCHANGED <<taches, horloge, stock, lignes, boissons,
                   production_journaliere>>

\* processus.executer_processus(boisson) on a process made of the steps
\* etapes; the steps in pannes return False
ExecuterProcessus(etapes, pannes) ==
    LET r == executer_processus(etapes, pannes) IN
    /\ appel' = [AppelVide EXCEPT !.op = "executer_processus",
                                 !.processus = etapes, !.pannes = pannes,
                                 !.ret = Bool(r.ret),
                                 !.executees = r.executees]
    /\ UNCHANGED <<taches, horloge, stock, lignes, boissons, lignes_production,
                   production_journaliere>>

\* Eau(nom, volume, ingredients, est_gazeuse).calculer_cout_production()
CalculerCoutProduction(volume, est_gazeuse) ==
    /\ appel' = [AppelVide EXCEPT
                    !.op = "calculer_cout_production",
                    !.volume = volume, !.est_gazeuse = est_gazeuse,
                    !.ret = "float",
                    !.cout = calculer_cout_production(volume, est_gazeuse)]
    /\ UNCHANGED <<taches, horloge, stock, lignes, boissons, lignes_production,
                   production_journaliere>>

\* processus.calculer_duree_totale() on a process made of the steps etapes
CalculerDureeTotale(etapes) ==
    /\ appel' = [AppelVide EXCEPT !.op = "calculer_duree_totale",
                                 !.processus = etapes, !.ret = "int",
                                 !.duree = calculer_duree_totale(etapes)]
    /\ UNCHANGED <<taches, horloge, stock, lignes, boissons, lignes_production,
                   production_journaliere>>

\* ligne.demarrer_production(boisson); the steps in pannes return False
DemarrerProduction(l, b, pannes) ==
    LET d == demarrer_production(lignes, boissons, l, b, horloge, pannes) IN
    /\ lignes' = d.lignes
    /\ boissons' = d.boissons
    /\ appel' = [AppelVide EXCEPT !.op = "demarrer_production", !.ligne = l,
                                 !.boisson = b, !.pannes = pannes,
                                 !.ret = Bool(d.ret)]
    /\ UNCHANGED <<taches, horloge, stock, lignes_production,
                   production_journaliere>>

\* ligne.terminer_production()
TerminerProduction(l) ==
    LET f == terminer_production(lignes, boissons, l, horloge) IN
    /\ lignes' = f.lignes
    /\ appel' = [AppelVide EXCEPT !.op = "terminer_production", !.ligne = l,
                                 !.ret = Optionnel(f.ret)]
    /\ UNCHANGED <<taches, horloge, stock, boissons, lignes_production,
                   production_journaliere>>

\* usine.produire_boisson(boisson); the steps in pannes return False
ProduireBoisson(b, pannes) ==
    LET p == produire_boisson(stock, lignes, boissons, lignes_production,
                              production_journaliere, b, horloge, pannes) IN
    /\ stock' = p.stock
    /\ lignes' = p.lignes
    /\ boissons' = p.boissons
    /\ production_journaliere' = p.production_journaliere
    /\ appel' = [AppelVide EXCEPT !.op = "produire_boisson", !.boisson = b,
                                 !.pannes = pannes, !.ret = Bool(p.ret),
                                 !.etape = p.etape]
    /\ UNCHANGED <<taches, horloge, lignes_production>>

\* usine.obtenir_statistiques()
ObtenirStatistiques ==
    /\ appel' = [AppelVide EXCEPT
                    !.op = "obtenir_statistiques",
                    !.ret = "dict",
                    !.stats = obtenir_statistiques(lignes, lignes_production,
                                                   production_journaliere)]
    /\ UNCHANGED <<taches, horloge, stock, lignes, boissons, lignes_production,
                   production_journaliere>>

\* the thread returns ret from the place etape of produire_boisson
Retour(tache, ret, etape) ==
    [tache EXCEPT !.pc = "retour", !.ret = Bool(ret), !.etape = etape]

\* the thread p calls usine.produire_boisson(b)
FilAppeler(p, b) ==
    /\ taches[p].pc = "repos"
    /\ taches' = [taches EXCEPT ![p] = [TacheVide EXCEPT !.pc = "verifier",
                                                         !.boisson = b]]
    /\ UNCHANGED <<horloge, stock, lignes, boissons, lignes_production,
                   production_journaliere, appel>>

\* the thread p runs the availability check of produire_boisson
FilVerifier(p) ==
    LET tache == taches[p] IN
    /\ tache.pc = "verifier"
    /\ taches' = [taches EXCEPT ![p] =
           IF ~verifier_disponibilite(stock, ingredients_de(tache.boisson))
           THEN Retour(tache, FALSE, "stock")
           ELSE [tache EXCEPT !.pc = "choisir"]]
    /\ UNCHANGED <<horloge, stock, lignes, boissons, lignes_production,
                   production_journaliere, appel>>

\* the thread p runs the scan for a free line of produire_boisson
FilChoisir(p) ==
    LET tache == taches[p]
        dispo == ligne_disponible(lignes, lignes_production) IN
    /\ tache.pc = "choisir"
    /\ taches' = [taches EXCEPT ![p] =
           IF dispo = None
           THEN Retour(tache, FALSE, "ligne")
           ELSE [tache EXCEPT
                    !.pc = IF ingredients_de(tache.boisson) = <<>>
                           THEN "demarrer" ELSE "consommer",
                    !.ligne = dispo[1],
                    !.k = 1]]
    /\ UNCHANGED <<horloge, stock, lignes, boissons, lignes_production,
                   production_journaliere, appel>>

\* the thread p runs one turn of the consumption loop of produire_boisson
FilConsommer(p) ==
    LET tache == taches[p]
        ingredient == ingredients_de(tache.boisson)[tache.k]
        r == consommer_ingredient(stock, ingredient.nom,
                                  ingredient.quantite) IN
    /\ tache.pc = "consommer"
    /\ stock' = r.stock
    /\ taches' = [taches EXCEPT ![p] =
           IF ~r.ret
           THEN Retour(tache, FALSE, "consommation")
           ELSE IF tache.k = Len(ingredients_de(tache.boisson))
                THEN [tache EXCEPT !.pc = "demarrer"]
                ELSE [tache EXCEPT !.k = tache.k + 1]]
    /\ UNCHANGED <<horloge, lignes, boissons, lignes_production,
                   production_journaliere, appel>>

\* the thread p calls ligne_disponible.demarrer_production(boisson); every
\* step of the process succeeds
FilDemarrer(p) ==
    LET tache == taches[p]
        d == demarrer_production(lignes, boissons, tache.ligne,
                                 tache.boisson, horloge, {}) IN
    /\ tache.pc = "demarrer"
    /\ lignes' = d.lignes
    /\ boissons' = d.boissons
    /\ taches' = [taches EXCEPT ![p] =
           IF d.ret
           THEN [tache EXCEPT !.pc = "terminer"]
           ELSE Retour(tache, FALSE, "demarrage")]
    /\ UNCHANGED <<horloge, stock, lignes_production,
                   production_journaliere, appel>>

\* the thread p calls ligne_disponible.terminer_production() and appends
\* the beverage returned
FilTerminer(p) ==
    LET tache == taches[p]
        f == terminer_production(lignes, boissons, tache.ligne, horloge) IN
    /\ tache.pc = "terminer"
    /\ lignes' = f.lignes
    /\ production_journaliere' =
           IF f.ret = None
           THEN production_journaliere
           ELSE Append(production_journaliere, f.ret[1])
    /\ taches' = [taches EXCEPT ![p] =
           IF f.ret = None
           THEN Retour(tache, FALSE, "fin")
           ELSE Retour(tache, TRUE, "produite")]
    /\ UNCHANGED <<horloge, stock, boissons, lignes_production, appel>>

\* the sets of failing steps explored: none, or every step of one line
Pannes ==
    {{}} \cup {{etapes_de(l)[i] : i \in DOMAIN etapes_de(l)} : l \in Lignes}

\* the lines already added to the factory
LignesAjoutees == {lignes_production[i] : i \in DOMAIN lignes_production}

\* the Boisson objects not yet handed to a line: the drivers construct one
\* object for each request
ToutesNeuves == {b \in Boissons : boissons[b].numero_lot = None}

\* those of class Eau
Neuves == ToutesNeuves \cap Eaux

----------------------------------------------------------------------------
(* Stock driven alone, as TestStock does *)

NextStock ==
    \/ \E nom \in Noms, quantite \in QtesAjout, seuil \in Seuils :
           AjouterIngredient(nom, quantite, seuil)
    \/ \E nom \in Noms, quantite \in QtesConso :
           ConsommerIngredient(nom, quantite)
    \/ \E ingredients_requis \in Requetes :
           VerifierDisponibilite(ingredients_requis)
    \/ ObtenirAlertes

SpecStock == Init /\ [][NextStock]_vars

(* The stock driven directly and through the factory *)

NextStockUsine ==
    \/ \E nom \in Noms, quantite \in QtesAjout, seuil \in Seuils :
           AjouterIngredient(nom, quantite, seuil)
    \/ \E nom \in Noms, quantite \in QtesConso :
           ConsommerIngredient(nom, quantite)
    \/ \E l \in Lignes \ LignesAjoutees : AjouterLigneProduction(l)
    \/ \E b \in Neuves, pannes \in Pannes : ProduireBoisson(b, pannes)

SpecStockUsine == Init /\ [][NextStockUsine]_vars

(* The cost of Eau objects, as TestBoissons.test_cout_production_eau asks *)
(* for it                                                                 *)

\* the volumes the Eau objects are constructed with: Boisson.__init__ takes
\* any number
Volumes == -1..MaxVolume

NextCout ==
    \E volume \in Volumes, est_gazeuse \in BOOLEAN :
        CalculerCoutProduction(volume, est_gazeuse)

SpecCout == Init /\ [][NextCout]_vars

(* A process run alone, as TestProcessusProduction does *)

\* the lists of steps a process is constructed with
ListesEtapes == UNION {[1..n -> Etapes] : n \in 0..MaxEtapes}

NextProcessus ==
    \/ \E etapes \in ListesEtapes, pannes \in SUBSET Etapes :
           ExecuterProcessus(etapes, pannes)
    \/ \E etapes \in ListesEtapes : CalculerDureeTotale(etapes)

SpecProcessus == Init /\ [][NextProcessus]_vars

(* The lines driven alone, as TestLigneProduction does *)

NextLigne ==
    \/ Attendre
    \/ \E l \in Lignes, b \in Neuves, pannes \in Pannes :
           DemarrerProduction(l, b, pannes)
    \/ \E l \in Lignes : TerminerProduction(l)

SpecLigne == Init /\ [][NextLigne]_vars

(* The factory: the driver fills the stock, adds each line once and asks *)
(* for beverages, as demonstration.py and TestUsine do                   *)

Next ==
    \/ Attendre
    \/ \E nom \in Noms, quantite \in QtesConso :
           AjouterIngredient(nom, quantite, SeuilDefaut)
    \/ \E l \in Lignes \ LignesAjoutees : AjouterLigneProduction(l)
    \/ \E b \in Neuves, pannes \in Pannes : ProduireBoisson(b, pannes)

Spec == Init /\ [][Next]_vars

(* The factory of the base design: every EtapeProduction.executer is the *)
(* one of the base class and returns True                                 *)

NextBase ==
    \/ Attendre
    \/ \E nom \in Noms, quantite \in QtesConso :
           AjouterIngredient(nom, quantite, SeuilDefaut)
    \/ \E l \in Lignes \ LignesAjoutees : AjouterLigneProduction(l)
    \/ \E b \in Neuves : ProduireBoisson(b, {})

SpecBase == Init /\ [][NextBase]_vars

(* The factory asked for beverages of two classes and for its statistics, *)
(* as TestUsine.test_statistiques_usine does                              *)

NextStatistiques ==
    \/ \E nom \in Noms, quantite \in QtesConso :
           AjouterIngredient(nom, quantite, SeuilDefaut)
    \/ \E l \in Lignes \ LignesAjoutees : AjouterLigneProduction(l)
    \/ \E b \in ToutesNeuves, pannes \in Pannes : ProduireBoisson(b, pannes)
    \/ ObtenirStatistiques

SpecStatistiques == Init /\ [][NextStatistiques]_vars

(* The factory asked again for Boisson objects it has seen: nothing in    *)
(* produire_boisson or demarrer_production looks at the lot of the object *)

NextResoumission ==
    \/ Attendre
    \/ \E nom \in Noms, quantite \in QtesConso :
           AjouterIngredient(nom, quantite, SeuilDefaut)
    \/ \E l \in Lignes \ LignesAjoutees : AjouterLigneProduction(l)
    \/ \E b \in Eaux, pannes \in Pannes :
           /\ Len(production_journaliere) < MaxProduction
           /\ ProduireBoisson(b, pannes)

SpecResoumission == Init /\ [][NextResoumission]_vars

(* Two threads call produire_boisson on the factory the driver has set *)
(* up, each with a Boisson object of its own; the threads interleave   *)
(* between the steps of produire_boisson                               *)

\* no thread has called yet
AucunAppel == \A p \in Fils : taches[p].pc = "repos"

\* the Boisson objects handed to the threads
BoissonsDesFils == {taches[p].boisson : p \in Fils}

NextConcurrent ==
    \/ \E nom \in Noms, quantite \in QtesConso :
           AucunAppel /\ AjouterIngredient(nom, quantite, SeuilDefaut)
    \/ \E l \in Lignes \ LignesAjoutees :
           AucunAppel /\ AjouterLigneProduction(l)
    \/ \E p \in Fils, b \in ToutesNeuves \ BoissonsDesFils : FilAppeler(p, b)
    \/ \E p \in Fils : FilVerifier(p)
    \/ \E p \in Fils : FilChoisir(p)
    \/ \E p \in Fils : FilConsommer(p)
    \/ \E p \in Fils : FilDemarrer(p)
    \/ \E p \in Fils : FilTerminer(p)

SpecConcurrent == Init /\ [][NextConcurrent]_vars

(* The factory and its lines driven together, the calls following one *)
(* another within one clock tick                                      *)

NextComplet ==
    \/ \E nom \in Noms, quantite \in QtesConso :
           AjouterIngredient(nom, quantite, SeuilDefaut)
    \/ \E l \in Lignes \ LignesAjoutees : AjouterLigneProduction(l)
    \/ \E b \in Neuves, pannes \in Pannes : ProduireBoisson(b, pannes)
    \/ \E l \in Lignes, b \in Neuves, pannes \in Pannes :
           DemarrerProduction(l, b, pannes)
    \/ \E l \in Lignes : TerminerProduction(l)

SpecComplet == Init /\ [][NextComplet]_vars

----------------------------------------------------------------------------
(* What the claims speak of *)

\* every ingredient of the list is in stock with at least the quantity asked
Disponible(s, requis) ==
    \A i \in DOMAIN requis :
        /\ requis[i].nom \in DOMAIN s.ingredients
        /\ s.ingredients[requis[i].nom] >= requis[i].quantite

\* no name occurs twice in the list
NomsDistincts(requis) ==
    \A i, j \in DOMAIN requis : i # j => requis[i].nom # requis[j].nom

\* the positions of lignes_production that hold an Idle line
PositionsLibres ==
    {i \in DOMAIN lignes_production : ~lignes[lignes_production[i]].est_active}

\* the names of the steps of line l
EtapesDeLigne(l) == {etapes_de(l)[i] : i \in DOMAIN etapes_de(l)}

\* this step is the call usine.produire_boisson(b) with failing steps pannes
AppelProduire(b, pannes) ==
    /\ appel'.op = "produire_boisson"
    /\ appel'.boisson = b
    /\ appel'.pannes = pannes

\* the last call was usine.produire_boisson and it returned ret
DernierProduire(ret) ==
    /\ appel.op = "produire_boisson"
    /\ appel.ret = ret

\* C1: when the stock holds every ingredient of the beverage (names pairwise
\* distinct), a line is Idle and every step of the first Idle line's process
\* succeeds, produire_boisson returns True, every required ingredient loses
\* exactly the quantity asked, production_journaliere gains exactly the
\* beverage and the line used is Idle afterwards.
C1_ProductionReussie ==
    [][\A b \in Boissons, pannes \in Pannes :
         (/\ AppelProduire(b, pannes)
          /\ Disponible(stock, ingredients_de(b))
          /\ NomsDistincts(ingredients_de(b))
          /\ PositionsLibres # {})
         => \A i \in PositionsLibres :
              ((\A j \in PositionsLibres : i <= j)
               /\ EtapesDeLigne(lignes_production[i]) \cap pannes = {})
              => /\ appel'.ret = "True"
                 /\ \A k \in DOMAIN ingredients_de(b) :
                      LET ing == ingredients_de(b)[k] IN
                      stock'.ingredients[ing.nom]
                          = stock.ingredients[ing.nom] - ing.quantite
                 /\ production_journaliere'
                        = Append(production_journaliere, b)
                 /\ ~lignes'[lignes_production[i]].est_active
      ]_vars

\* a produire_boisson of a beverage with two distinct ingredients returned
\* True and the beverage is the last of production_journaliere
C1_Temoin ==
    /\ DernierProduire("True")
    /\ Len(ingredients_de(appel.boisson)) > 1
    /\ NomsDistincts(ingredients_de(appel.boisson))
    /\ production_journaliere # <<>>
    /\ production_journaliere[Len(production_journaliere)] = appel.boisson

\* C2: when an ingredient of the beverage is absent from the stock or held
\* in a smaller quantity than asked, produire_boisson returns False and
\* changes nothing: stock, lines, lot fields and production_journaliere.
C2_StockInsuffisant ==
    [][\A b \in Boissons, pannes \in Pannes :
         (AppelProduire(b, pannes) /\ ~Disponible(stock, ingredients_de(b)))
         => /\ appel'.ret = "False"
            /\ UNCHANGED <<stock, lignes, boissons, production_journaliere>>
      ]_vars

\* a produire_boisson returned False for a beverage the stock cannot supply,
\* with an Idle line waiting in the factory
C2_Temoin ==
    /\ DernierProduire("False")
    /\ ~Disponible(stock, ingredients_de(appel.boisson))
    /\ PositionsLibres # {}
    /\ \E n \in DOMAIN stock.ingredients : stock.ingredients[n] > 0

\* C8: when the stock holds every ingredient of the beverage but no line of
\* the factory is Idle (or the factory has no line), produire_boisson
\* returns False and changes nothing.
C8_AucuneLigne ==
    [][\A b \in Boissons, pannes \in Pannes :
         (/\ AppelProduire(b, pannes)
          /\ Disponible(stock, ingredients_de(b))
          /\ PositionsLibres = {})
         => /\ appel'.ret = "False"
            /\ UNCHANGED <<stock, lignes, boissons, production_journaliere>>
      ]_vars

\* a produire_boisson returned False although the stock could supply the
\* beverage, every line of a non-empty factory being Active
C8_Temoin ==
    /\ DernierProduire("False")
    /\ Disponible(stock, ingredients_de(appel.boisson))
    /\ lignes_production # <<>>
    /\ PositionsLibres = {}

\* C9: every production run receives a unique lot id: no two production
\* records of the lines and no two distinct beverages of
\* production_journaliere carry the same lot id.
C9_LotsUniques ==
    /\ \A l1 \in Lignes, l2 \in Lignes :
         \A i \in DOMAIN lignes[l1].historique_production,
            j \in DOMAIN lignes[l2].historique_production :
             <<l1, i>> # <<l2, j>>
             => lignes[l1].historique_production[i].lot
                    # lignes[l2].historique_production[j].lot
    /\ \A i, j \in DOMAIN production_journaliere :
         production_journaliere[i] # production_journaliere[j]
         => boissons[production_journaliere[i]].numero_lot
                # boissons[production_journaliere[j]].numero_lot

\* C3: in every state reached by ajouter_ingredient, consommer_ingredient
\* and produire_boisson calls, every quantity held in the stock is >= 0.
C3_StockNonNegatif ==
    \A n \in DOMAIN stock.ingredients : stock.ingredients[n] >= 0

\* this step is the call stock.consommer_ingredient(nom, quantite)
AppelConsommer(nom, quantite) ==
    /\ appel'.op = "consommer_ingredient"
    /\ appel'.nom = nom
    /\ appel'.quantite = quantite

\* C6: consommer_ingredient(nom, q) returns False and leaves every quantity
\* and threshold as it was whenever nom is absent from the stock or q is
\* greater than the quantity held.
C6_ConsommationRefusee ==
    [][\A nom \in Noms, quantite \in QtesConso :
         (/\ AppelConsommer(nom, quantite)
          /\ \/ nom \notin DOMAIN stock.ingredients
             \/ quantite > stock.ingredients[nom])
         => /\ appel'.ret = "False"
            /\ stock'.ingredients = stock.ingredients
            /\ stock'.seuils_alerte = stock.seuils_alerte
      ]_vars

\* a consommer_ingredient returned False for a name the stock holds, in a
\* positive quantity smaller than the one asked
C6_Temoin ==
    /\ appel.op = "consommer_ingredient"
    /\ appel.ret = "False"
    /\ appel.nom \in DOMAIN stock.ingredients
    /\ stock.ingredients[appel.nom] > 0
    /\ stock.ingredients[appel.nom] < appel.quantite

\* C7: verifier_disponibilite(requis) returns True exactly when every
\* ingredient of the list is in stock with at least the quantity asked (True
\* for the empty list), and it never changes the stock.
C7_VerifierDisponibilite ==
    [][\A requis \in Requetes :
         (appel'.op = "verifier_disponibilite" /\ appel'.requis = requis)
         => /\ appel'.ret = "True" <=> Disponible(stock, requis)
            /\ appel'.ret = "False" <=> ~Disponible(stock, requis)
            /\ requis = <<>> => appel'.ret = "True"
            /\ stock' = stock
      ]_vars

\* a verifier_disponibilite returned True for a list one of whose
\* ingredients is held in exactly the quantity asked
C7_Temoin ==
    /\ appel.op = "verifier_disponibilite"
    /\ appel.ret = "True"
    /\ \E i \in DOMAIN appel.requis :
         stock.ingredients[appel.requis[i].nom] = appel.requis[i].quantite

\* this step is the call ligne.demarrer_production(boisson) on line l
AppelDemarrer(l, b) ==
    /\ appel'.op = "demarrer_production"
    /\ appel'.ligne = l
    /\ appel'.boisson = b

\* C4: a line holds at most one beverage in flight; demarrer_production on
\* an Active line returns False and changes nothing: the line keeps its
\* beverage, start time, flag and history, and the beverage refused gets no
\* lot and no date.
C4_LigneDejaActive ==
    [][\A l \in Lignes, b \in Boissons :
         /\ Len(lignes[l].production_actuelle) <= 1
         /\ (AppelDemarrer(l, b) /\ lignes[l].est_active)
            => /\ appel'.ret = "False"
               /\ lignes' = lignes
               /\ boissons' = boissons
      ]_vars

\* a demarrer_production returned False on an Active line that holds
\* another beverage than the one refused
C4_Temoin ==
    /\ appel.op = "demarrer_production"
    /\ appel.ret = "False"
    /\ lignes[appel.ligne].est_active
    /\ lignes[appel.ligne].production_actuelle # Some(appel.boisson)

\* C5: after demarrer_production(b) returns True on an Idle line, b has a
\* lot, the line is Active and holds b; after terminer_production on a line
\* holding b the line is Idle, holds nothing, b is returned and the history
\* of the line is longer by exactly one record.
C5_DemarrerPuisTerminer ==
    [][\A l \in Lignes, b \in Boissons :
         /\ (AppelDemarrer(l, b) /\ ~lignes[l].est_active
                 /\ appel'.ret = "True")
            => /\ boissons'[b].numero_lot # None
               /\ lignes'[l].est_active
               /\ lignes'[l].production_actuelle = Some(b)
         /\ (/\ appel'.op = "terminer_production"
             /\ appel'.ligne = l
             /\ lignes[l].est_active
             /\ lignes[l].production_actuelle = Some(b))
            => /\ ~lignes'[l].est_active
               /\ lignes'[l].production_actuelle = None
               /\ appel'.ret = b
               /\ Len(lignes'[l].historique_production)
                      = Len(lignes[l].historique_production) + 1
      ]_vars

\* a terminer_production returned the beverage the line held, which has a
\* lot, and the line is Idle with one record
C5_Temoin ==
    /\ appel.op = "terminer_production"
    /\ appel.ret \in Boissons
    /\ ~lignes[appel.ligne].est_active
    /\ Len(lignes[appel.ligne].historique_production) = 1
    /\ boissons[appel.ret].numero_lot # None

\* numero_lot and date_production of every beverage of bs are both unset
\* or both set
LotEtDateEnsemble(bs) ==
    \A b \in Boissons :
        (bs[b].numero_lot = None) <=> (bs[b].date_production = None)

\* C10: numero_lot and date_production of a beverage are both unset or both
\* set; they stay unset until the beverage is accepted by
\* demarrer_production on an Idle line: a produire_boisson that fails at the
\* stock check, the line selection or the consumption, and a
\* demarrer_production refused by an Active line, leave them unset; an
\* accepted production sets the lot of its beverage and of no other.
C10_DisciplineLot ==
    [][/\ LotEtDateEnsemble(boissons)
       /\ LotEtDateEnsemble(boissons')
       /\ \A b \in Boissons :
            (boissons[b].numero_lot = None /\ boissons'[b] # boissons[b])
            => /\ boissons'[b].numero_lot # None
               /\ \/ \E l \in Lignes :
                       AppelDemarrer(l, b) /\ ~lignes[l].est_active
                  \/ /\ appel'.op = "produire_boisson"
                     /\ appel'.boisson = b
                     /\ Disponible(stock, ingredients_de(b))
                     /\ PositionsLibres # {}
       /\ \A b \in Boissons, pannes \in Pannes :
            (/\ AppelProduire(b, pannes)
             /\ \/ ~Disponible(stock, ingredients_de(b))
                \/ PositionsLibres = {}
                \/ appel'.ret = "False" /\ lignes' = lignes)
            => boissons' = boissons
       /\ \A l \in Lignes, b \in Boissons :
            /\ (AppelDemarrer(l, b) /\ lignes[l].est_active)
               => boissons' = boissons
            /\ (AppelDemarrer(l, b) /\ ~lignes[l].est_active)
               => boissons'[b].numero_lot # None
       /\ Cardinality({b \in Boissons : boissons'[b] # boissons[b]}) <= 1
      ]_vars

\* a produire_boisson returned False and left its beverage without lot and
\* without date, while another beverage carries both
C10_Temoin ==
    /\ DernierProduire("False")
    /\ boissons[appel.boisson] = BoissonNeuve
    /\ \E b \in Boissons :
         boissons[b].numero_lot # None /\ boissons[b].date_production # None

\* the total quantity the list asks of the name n
RECURSIVE Demande(_, _)
Demande(requis, n) ==
    IF requis = <<>>
    THEN 0
    ELSE (IF Head(requis).nom = n THEN Head(requis).quantite ELSE 0)
         + Demande(Tail(requis), n)

\* the stock holds, for every name of the list, the total quantity asked
Couvert(s, requis) ==
    \A i \in DOMAIN requis :
        /\ requis[i].nom \in DOMAIN s.ingredients
        /\ s.ingredients[requis[i].nom] >= Demande(requis, requis[i].nom)

\* C11: when a step of the line's process returns False, demarrer_production
\* returns False and leaves the line Active holding the beverage;
\* produire_boisson then returns False without terminer_production (no
\* record, nothing appended to production_journaliere); an Active line is
\* left as it is by every produire_boisson, and only terminer_production
\* called on it makes it Idle again.
C11_LigneBloquee ==
    [][/\ \A l \in Lignes, b \in Boissons :
            (/\ AppelDemarrer(l, b)
             /\ ~lignes[l].est_active
             /\ EtapesDeLigne(l) \cap appel'.pannes # {})
            => /\ appel'.ret = "False"
               /\ lignes'[l].est_active
               /\ lignes'[l].production_actuelle = Some(b)
       /\ \A b \in Boissons, pannes \in Pannes :
            (/\ AppelProduire(b, pannes)
             /\ Couvert(stock, ingredients_de(b))
             /\ PositionsLibres # {})
            => \A i \in PositionsLibres :
                 ((\A j \in PositionsLibres : i <= j)
                  /\ EtapesDeLigne(lignes_production[i]) \cap pannes # {})
                 => LET l == lignes_production[i] IN
                    /\ appel'.ret = "False"
                    /\ lignes'[l].est_active
                    /\ lignes'[l].production_actuelle = Some(b)
                    /\ lignes'[l].historique_production
                           = lignes[l].historique_production
                    /\ production_journaliere' = production_journaliere
       /\ \A l \in Lignes :
            /\ (lignes[l].est_active /\ appel'.op = "produire_boisson")
               => lignes'[l] = lignes[l]
            /\ (lignes[l].est_active /\ ~lignes'[l].est_active)
               => appel'.op = "terminer_production" /\ appel'.ligne = l
      ]_vars

\* a produire_boisson returned False and left its line Active holding its
\* beverage, without a record, after it passed over an earlier line of the
\* factory that was already Active with another beverage
C11_Temoin ==
    /\ DernierProduire("False")
    /\ \E i, j \in DOMAIN lignes_production :
         /\ i < j
         /\ lignes[lignes_production[i]].est_active
         /\ lignes[lignes_production[i]].production_actuelle
                \notin {None, Some(appel.boisson)}
         /\ lignes[lignes_production[j]].est_active
         /\ lignes[lignes_production[j]].production_actuelle
                = Some(appel.boisson)
         /\ lignes[lignes_production[j]].historique_production = <<>>

\* C12: in every produire_boisson whose availability check passed and that
\* found an Idle line, every consommer_ingredient of the consumption loop
\* succeeds: the call never returns from the 'Impossible de consommer'
\* branch and the stock loses the whole quantity asked of every name.
C12_VerifierPuisConsommer ==
    [][\A b \in Boissons, pannes \in Pannes :
         (/\ AppelProduire(b, pannes)
          /\ Disponible(stock, ingredients_de(b))
          /\ PositionsLibres # {})
         => /\ appel'.etape # "consommation"
            /\ \A n \in DOMAIN stock.ingredients :
                 stock'.ingredients[n]
                     = stock.ingredients[n] - Demande(ingredients_de(b), n)
      ]_vars

\* the first k ingredients of the list
Debut(requis, k) == SubSeq(requis, 1, k)

\* the consumption of the k-th ingredient of the list fails: the stock holds
\* less of its name than the list asks up to there
Manque(s, requis, k) ==
    \/ requis[k].nom \notin DOMAIN s.ingredients
    \/ s.ingredients[requis[k].nom] < Demande(Debut(requis, k), requis[k].nom)

\* C13: when a consumption fails in the middle of the consumption loop of
\* produire_boisson (the check passed, a line is Idle, the k-th ingredient is
\* the first that cannot be taken), the call returns False, the ingredients
\* before the k-th stay deducted, the k-th and the later ones are not taken,
\* no line changes, no beverage gets a lot and production_journaliere is
\* unchanged.
C13_ConsommationNonTransactionnelle ==
    [][\A b \in Boissons, pannes \in Pannes :
         \A k \in DOMAIN ingredients_de(b) :
           (/\ AppelProduire(b, pannes)
            /\ Disponible(stock, ingredients_de(b))
            /\ PositionsLibres # {}
            /\ Manque(stock, ingredients_de(b), k)
            /\ \A i \in 1..(k - 1) : ~Manque(stock, ingredients_de(b), i))
           => /\ appel'.ret = "False"
              /\ appel'.etape = "consommation"
              /\ DOMAIN stock'.ingredients = DOMAIN stock.ingredients
              /\ \A n \in DOMAIN stock.ingredients :
                   stock'.ingredients[n]
                       = stock.ingredients[n]
                         - Demande(Debut(ingredients_de(b), k - 1), n)
              /\ stock'.seuils_alerte = stock.seuils_alerte
              /\ UNCHANGED <<lignes, boissons, production_journaliere>>
      ]_vars

\* a produire_boisson returned False from the consumption loop: it took the
\* first ingredient of its beverage, left a later one in the stock, and the
\* beverage has no lot
C13_Temoin ==
    /\ DernierProduire("False")
    /\ appel.etape = "consommation"
    /\ stock.ingredients["eau"] = 0
    /\ stock.ingredients["mineraux"] > 0
    /\ PositionsLibres # {}
    /\ boissons[appel.boisson] = BoissonNeuve

\* the positions of the list that hold a step that returns False
Echecs(etapes, pannes) == {i \in DOMAIN etapes : etapes[i] \in pannes}

\* C14: executer_processus calls the steps in the declared order (the steps
\* called are the first ones of the list, in list order), stops at the first
\* step that returns False, calling no later step, and returns False then;
\* it returns True exactly when every step was called and returned True, so
\* True for an empty list.
C14_ExecuterProcessus ==
    [][appel'.op = "executer_processus"
       => LET etapes == appel'.processus
              executees == appel'.executees
              echecs == Echecs(appel'.processus, appel'.pannes) IN
          /\ Len(executees) <= Len(etapes)
          /\ \A i \in DOMAIN executees : executees[i] = etapes[i]
          /\ \A k \in echecs :
               (\A j \in echecs : k <= j)
               => Len(executees) = k /\ appel'.ret = "False"
          /\ appel'.ret = "True"
               <=> (Len(executees) = Len(etapes) /\ echecs = {})
          /\ appel'.ret \in {"True", "False"}
          /\ etapes = <<>> => appel'.ret = "True"
      ]_vars

\* an executer_processus returned False after it called two of three steps:
\* the first returned True, the second False, and the third returns True
C14_Temoin ==
    /\ appel.op = "executer_processus"
    /\ appel.ret = "False"
    /\ Len(appel.processus) = 3
    /\ Len(appel.executees) = 2
    /\ appel.processus[1] \notin appel.pannes
    /\ appel.processus[3] \notin appel.pannes

\* the sum of the values of a dict of counts
RECURSIVE Somme(_)
Somme(d) ==
    IF DOMAIN d = {}
    THEN 0
    ELSE LET k == CHOOSE x \in DOMAIN d : TRUE IN
         d[k] + Somme([x \in DOMAIN d \ {k} |-> d[x]])

\* the positions of production_journaliere that hold a beverage of class c
PositionsDeClasse(c) ==
    {i \in DOMAIN production_journaliere :
        classe_de(production_journaliere[i]) = c}

\* C15: production_journaliere starts empty, grows by exactly one beverage
\* in every produire_boisson that returns True and is left alone by every
\* other call, so its length is the number of produire_boisson calls that
\* returned True; obtenir_statistiques reports that length as the total, a
\* count for each class produced (and for no other) equal to the number of
\* beverages of the class, counts that sum to the total, the number of lines
\* of the factory, and changes nothing; on a one-line factory that produced
\* n beverages, all of class Eau, the total is n and the count of Eau is n.
C15_Statistiques ==
    [][/\ appel'.op = "produire_boisson"
          => Len(production_journaliere')
                 = Len(production_journaliere)
                   + (IF appel'.ret = "True" THEN 1 ELSE 0)
       /\ appel'.op # "produire_boisson"
          => production_journaliere' = production_journaliere
       /\ appel'.op = "obtenir_statistiques"
          => LET stats == appel'.stats IN
             /\ stats.total_boissons_produites = Len(production_journaliere)
             /\ Somme(stats.types_boissons) = stats.total_boissons_produites
             /\ DOMAIN stats.types_boissons
                    = {classe_de(production_journaliere[i]) :
                           i \in DOMAIN production_journaliere}
             /\ \A c \in DOMAIN stats.types_boissons :
                  stats.types_boissons[c] = Cardinality(PositionsDeClasse(c))
             /\ stats.total_lignes = Len(lignes_production)
             /\ (/\ Len(lignes_production) = 1
                 /\ production_journaliere # <<>>
                 /\ \A i \in DOMAIN production_journaliere :
                      production_journaliere[i] \in Eaux)
                => /\ stats.total_boissons_produites
                          = Len(production_journaliere)
                   /\ stats.types_boissons
                          = [c \in {"Eau"} |-> Len(production_journaliere)]
             /\ UNCHANGED <<stock, lignes, boissons, lignes_production,
                            production_journaliere>>
      ]_vars

\* obtenir_statistiques reported, on a one-line factory used three times in
\* a row, three beverages: two of class Eau and one of class Soda
C15_Temoin ==
    /\ appel.op = "obtenir_statistiques"
    /\ Len(lignes_production) = 1
    /\ appel.stats.total_lignes = 1
    /\ appel.stats.total_boissons_produites = 3
    /\ appel.stats.types_boissons = [c \in {"Eau", "Soda"} |->
                                        IF c = "Eau" THEN 2 ELSE 1]
    /\ Len(lignes[lignes_production[1]].historique_production) = 3

\* C16: terminer_production on an Idle line returns None and changes
\* nothing: est_active, production_actuelle, heure_debut_production and
\* historique_production of the line keep their values (no record is
\* appended), and so do the other lines and the beverages.
C16_TerminerLigneInactive ==
    [][\A l \in Lignes :
         (/\ appel'.op = "terminer_production"
          /\ appel'.ligne = l
          /\ ~lignes[l].est_active)
         => /\ appel'.ret = "None"
            /\ lignes'[l].est_active = lignes[l].est_active
            /\ lignes'[l].production_actuelle = lignes[l].production_actuelle
            /\ lignes'[l].heure_debut_production
                   = lignes[l].heure_debut_production
            /\ lignes'[l].historique_production
                   = lignes[l].historique_production
            /\ lignes' = lignes
            /\ boissons' = boissons
      ]_vars

\* a terminer_production returned None on an Idle line that produced one
\* beverage before and still has exactly that record
C16_Temoin ==
    /\ appel.op = "terminer_production"
    /\ appel.ret = "None"
    /\ ~lignes[appel.ligne].est_active
    /\ lignes[appel.ligne].production_actuelle = None
    /\ Len(lignes[appel.ligne].historique_production) = 1

\* C17: ajouter_ingredient(nom, q, seuil) on a name already in stock raises
\* its quantity by q and keeps its threshold, whatever seuil is; on a new
\* name it creates the name with quantity q and threshold seuil; the other
\* names keep their quantity and their threshold, and none appears or
\* disappears.
C17_AjouterIngredient ==
    [][appel'.op = "ajouter_ingredient"
       => LET nom == appel'.nom IN
          /\ nom \in DOMAIN stock.ingredients
             => /\ stock'.ingredients[nom]
                       = stock.ingredients[nom] + appel'.quantite
                /\ stock'.seuils_alerte[nom] = stock.seuils_alerte[nom]
          /\ nom \notin DOMAIN stock.ingredients
             => /\ stock'.ingredients[nom] = appel'.quantite
                /\ stock'.seuils_alerte[nom] = appel'.seuil
          /\ DOMAIN stock'.ingredients = DOMAIN stock.ingredients \cup {nom}
          /\ DOMAIN stock'.seuils_alerte
                 = DOMAIN stock.seuils_alerte \cup {nom}
          /\ \A n \in DOMAIN stock.ingredients \ {nom} :
               /\ stock'.ingredients[n] = stock.ingredients[n]
               /\ stock'.seuils_alerte[n] = stock.seuils_alerte[n]
      ]_vars

\* an ajouter_ingredient was made with another threshold than the one its
\* name has, on a stock that holds another name too
C17_Temoin ==
    /\ appel.op = "ajouter_ingredient"
    /\ appel.nom \in DOMAIN stock.seuils_alerte
    /\ stock.seuils_alerte[appel.nom] # appel.seuil
    /\ stock.ingredients[appel.nom] # appel.quantite
    /\ DOMAIN stock.ingredients # {appel.nom}

\* C18: the names that have a threshold are the names that have a quantity,
\* in every state reached through ajouter_ingredient, consommer_ingredient
\* and produire_boisson, and no call removes a name from the stock.
C18_ClesDuStock ==
    [][/\ DOMAIN stock.seuils_alerte = DOMAIN stock.ingredients
       /\ DOMAIN stock'.seuils_alerte = DOMAIN stock'.ingredients
       /\ DOMAIN stock.ingredients \subseteq DOMAIN stock'.ingredients
      ]_vars

\* a produire_boisson returned True and emptied an entry of a stock that
\* holds both names, each with a threshold of its own
C18_Temoin ==
    /\ DernierProduire("True")
    /\ DOMAIN stock.ingredients = Noms
    /\ DOMAIN stock.seuils_alerte = Noms
    /\ stock.seuils_alerte["eau"] # stock.seuils_alerte["mineraux"]
    /\ \E n \in Noms : stock.ingredients[n] = 0

\* the position of the name n in the list of names
Position(noms, n) == CHOOSE i \in DOMAIN noms : noms[i] = n

\* C19: obtenir_alertes returns one message for each name whose quantity is
\* at most its threshold (a quantity equal to the threshold included) and
\* none for the other names, each with the name and its quantity, in the
\* order the names were first added (every new name is added after the
\* names already there, and the order never changes otherwise), and it
\* leaves the stock as it is.
C19_ObtenirAlertes ==
    [][/\ appel'.op = "obtenir_alertes"
          => LET alertes == appel'.alertes IN
             /\ stock' = stock
             /\ \A n \in DOMAIN stock.ingredients :
                  Cardinality({i \in DOMAIN alertes : alertes[i].nom = n})
                      = IF stock.ingredients[n] <= stock.seuils_alerte[n]
                        THEN 1 ELSE 0
             /\ \A i \in DOMAIN alertes :
                  /\ alertes[i].nom \in DOMAIN stock.ingredients
                  /\ alertes[i].quantite = stock.ingredients[alertes[i].nom]
             /\ \A i, j \in DOMAIN alertes :
                  i < j => Position(stock.ordre, alertes[i].nom)
                               < Position(stock.ordre, alertes[j].nom)
       /\ stock'.ordre
              = IF /\ appel'.op = "ajouter_ingredient"
                   /\ appel'.nom \notin DOMAIN stock.ingredients
                THEN Append(stock.ordre, appel'.nom)
                ELSE stock.ordre
       /\ Len(stock.ordre) = Cardinality(DOMAIN stock.ingredients)
       /\ \A i \in DOMAIN stock.ordre :
            stock.ordre[i] \in DOMAIN stock.ingredients
      ]_vars

\* obtenir_alertes returned a single message, for the name added second,
\* whose quantity equals its threshold, and none for the name added first
C19_Temoin ==
    /\ appel.op = "obtenir_alertes"
    /\ Len(appel.alertes) = 1
    /\ Len(stock.ordre) = 2
    /\ appel.alertes[1].nom = stock.ordre[2]
    /\ appel.alertes[1].quantite = stock.seuils_alerte[stock.ordre[2]]

\* obtenir_alertes returned two messages, the first for the name added
\* first
C19_TemoinOrdre ==
    /\ appel.op = "obtenir_alertes"
    /\ Len(appel.alertes) = 2
    /\ stock.ordre = <<"mineraux", "eau">>
    /\ appel.alertes[1].nom = "mineraux"

\* the beverages of production_journaliere
Produites ==
    {production_journaliere[i] : i \in DOMAIN production_journaliere}

\* the lot of every production record is the lot its beverage carries
LotsDesRecords(ls, bs) ==
    \A l \in Lignes :
        \A i \in DOMAIN ls[l].historique_production :
            ls[l].historique_production[i].lot
                = bs[ls[l].historique_production[i].boisson].numero_lot

\* C20: once a beverage is in production_journaliere (and in the history of
\* a line), no later produire_boisson, whatever its argument, changes its
\* numero_lot or its date_production, and the lot of its production record
\* stays equal to its numero_lot.
C20_BoissonsFigees ==
    [][/\ \A b \in Produites : boissons'[b] = boissons[b]
       /\ LotsDesRecords(lignes, boissons)
       /\ LotsDesRecords(lignes', boissons')
      ]_vars

\* the number of times the step e is listed
Occurrences(etapes, e) == Cardinality({i \in DOMAIN etapes : etapes[i] = e})

\* C21: calculer_duree_totale returns the sum of the duree_minutes of the
\* steps of the list, each step counted as many times as it is listed and
\* whatever the order: with the steps of the model, 5 for each
\* "preparation", 12 for each "embouteillage" and 8 for each "filtrage"; it
\* returns 0 for the empty list and changes nothing.
C21_DureeTotale ==
    [][appel'.op = "calculer_duree_totale"
       => LET etapes == appel'.processus IN
          /\ appel'.duree = 5 * Occurrences(etapes, "preparation")
                            + 12 * Occurrences(etapes, "embouteillage")
                            + 8 * Occurrences(etapes, "filtrage")
          /\ etapes = <<>> => appel'.duree = 0
          /\ UNCHANGED <<horloge, stock, lignes, boissons, lignes_production,
                         production_journaliere>>
      ]_vars

\* a calculer_duree_totale returned 22 for a list of three steps that names
\* one step twice
C21_Temoin ==
    /\ appel.op = "calculer_duree_totale"
    /\ Len(appel.processus) = 3
    /\ Cardinality({appel.processus[i] : i \in DOMAIN appel.processus}) = 2
    /\ appel.duree = 22

\* C22: for every two Eau objects of the same volume, one sparkling and one
\* still, the production cost of the sparkling one is strictly greater than
\* the cost of the still one.
C22_CoutEauGazeuse ==
    [][(/\ appel.op = "calculer_cout_production"
        /\ appel'.op = "calculer_cout_production"
        /\ appel'.volume = appel.volume
        /\ ~appel.est_gazeuse
        /\ appel'.est_gazeuse)
       => appel'.cout > appel.cout
      ]_vars

\* C23: consommer_ingredient(nom, q) on a name the stock holds in a quantity
\* of at least q returns True, lowers the quantity of nom by exactly q and
\* leaves the quantity of every other name, every threshold and the set of
\* names as they were; taking exactly the quantity held leaves 0.
C23_ConsommationReussie ==
    [][(/\ appel'.op = "consommer_ingredient"
        /\ appel'.nom \in DOMAIN stock.ingredients
        /\ stock.ingredients[appel'.nom] >= appel'.quantite)
       => LET nom == appel'.nom IN
          /\ appel'.ret = "True"
          /\ stock'.ingredients[nom]
                 = stock.ingredients[nom] - appel'.quantite
          /\ stock.ingredients[nom] = appel'.quantite
             => stock'.ingredients[nom] = 0
          /\ DOMAIN stock'.ingredients = DOMAIN stock.ingredients
          /\ \A n \in DOMAIN stock.ingredients \ {nom} :
               stock'.ingredients[n] = stock.ingredients[n]
          /\ stock'.seuils_alerte = stock.seuils_alerte
      ]_vars

\* a consommer_ingredient returned True and left 0 of its name, which it
\* took whole, in a stock that holds another name in a positive quantity
C23_Temoin ==
    /\ appel.op = "consommer_ingredient"
    /\ appel.ret = "True"
    /\ appel.quantite = 2
    /\ stock.ingredients[appel.nom] = 0
    /\ \E n \in DOMAIN stock.ingredients \ {appel.nom} :
         stock.ingredients[n] > 0

\* the first Idle line of the factory, in the order the lines were added
PremiereLibre ==
    lignes_production[CHOOSE i \in PositionsLibres :
                          \A j \in PositionsLibres : i <= j]

\* C24: produire_boisson starts production on the first Idle line, in the
\* order the lines were added: whenever the stock covers the beverage and a
\* line is Idle, demarrer_production is accepted on that line (the beverage
\* gets the lot of that line, and the line ends Active or with one more
\* record); a call changes no line and no lot unless a line is Idle, and it
\* leaves the state and the history of every other line unchanged.
C24_ChoixDeLigne ==
    [][\A b \in Boissons :
         (appel'.op = "produire_boisson" /\ appel'.boisson = b)
         => /\ PositionsLibres = {}
               => lignes' = lignes /\ boissons' = boissons
            /\ PositionsLibres # {}
               => /\ \A l \in Lignes \ {PremiereLibre} :
                       lignes'[l] = lignes[l]
                  /\ Couvert(stock, ingredients_de(b))
                     => /\ boissons'[b].numero_lot # None
                        /\ boissons'[b].numero_lot[1].ligne = PremiereLibre
                        /\ \/ /\ lignes'[PremiereLibre].est_active
                              /\ lignes'[PremiereLibre].production_actuelle
                                     = Some(b)
                           \/ Len(lignes'[PremiereLibre].historique_production)
                                = Len(lignes[PremiereLibre]
                                          .historique_production) + 1
      ]_vars

\* a produire_boisson returned True on a factory of two Idle lines, L2 added
\* first: L2 has the record, L1 has none
C24_Temoin ==
    /\ DernierProduire("True")
    /\ lignes_production = <<"L2", "L1">>
    /\ Len(lignes["L2"].historique_production) = 1
    /\ lignes["L2"].historique_production[1].boisson = appel.boisson
    /\ lignes["L1"] = LigneNeuve

\* C26: when the availability check passes, a line is Idle, every
\* consumption succeeds and a step of the process of the first Idle line
\* returns False, produire_boisson returns False with every ingredient of
\* the beverage deducted from the stock, the lot of the beverage assigned,
\* production_journaliere unchanged and no record appended to any line.
C26_EchecSansRestitution ==
    [][\A b \in Boissons, pannes \in Pannes :
         (/\ AppelProduire(b, pannes)
          /\ Disponible(stock, ingredients_de(b))
          /\ Couvert(stock, ingredients_de(b))
          /\ PositionsLibres # {}
          /\ EtapesDeLigne(PremiereLibre) \cap pannes # {})
         => /\ appel'.ret = "False"
            /\ \A n \in DOMAIN stock.ingredients :
                 stock'.ingredients[n]
                     = stock.ingredients[n] - Demande(ingredients_de(b), n)
            /\ boissons'[b].numero_lot # None
            /\ boissons'[b].date_production # None
            /\ production_journaliere' = production_journaliere
            /\ \A l \in Lignes :
                 lignes'[l].historique_production
                     = lignes[l].historique_production
      ]_vars

\* a produire_boisson returned False from the start of the production: its
\* beverage has a lot, the stock has lost an ingredient down to 0, nothing
\* was ever produced and no line has a record
C26_Temoin ==
    /\ DernierProduire("False")
    /\ appel.etape = "demarrage"
    /\ boissons[appel.boisson].numero_lot # None
    /\ \E n \in DOMAIN stock.ingredients : stock.ingredients[n] = 0
    /\ production_journaliere = <<>>
    /\ \A l \in Lignes : lignes[l].historique_production = <<>>

\* every line is Idle in the lines ls
ToutesLibres(ls) == \A l \in Lignes : ~ls[l].est_active

\* C27: when every step succeeds and the lines are driven only through
\* produire_boisson, every line is Idle before and after each call; the
\* line a successful call used went Idle -> Active -> Idle inside the call
\* (it has one more record, with the start time demarrer_production set);
\* and a factory with at least one line never returns from the 'Aucune
\* ligne' branch.
C27_RetourAuRepos ==
    [][/\ ToutesLibres(lignes)
       /\ ToutesLibres(lignes')
       /\ (appel'.op = "produire_boisson" /\ lignes_production # <<>>)
          => appel'.etape # "ligne"
       /\ (appel'.op = "produire_boisson" /\ appel'.ret = "True")
          => LET l == lignes_production[1]
                 h == lignes'[l].historique_production IN
             /\ Len(h) = Len(lignes[l].historique_production) + 1
             /\ h[Len(h)].debut = Some(horloge)
             /\ h[Len(h)].boisson = appel'.boisson
      ]_vars

\* a produire_boisson returned True for the second time on a one-line
\* factory, whose line is Idle with two records
C27_Temoin ==
    /\ DernierProduire("True")
    /\ Len(lignes_production) = 1
    /\ ~lignes[lignes_production[1]].est_active
    /\ Len(lignes[lignes_production[1]].historique_production) = 2
    /\ Len(production_journaliere) = 2

\* est_active, production_actuelle and heure_debut_production of the line
\* are all three set or all three cleared
TroisChamps(ligne) ==
    /\ ligne.est_active <=> ligne.production_actuelle # None
    /\ ligne.est_active <=> ligne.heure_debut_production # None

\* C28: in every state reached through demarrer_production and
\* terminer_production, called directly or by produire_boisson, a line is
\* Active exactly when it holds a beverage and exactly when it has a start
\* time; no call sets or clears one of the three fields without the others.
C28_EtatDeLigne ==
    [][\A l \in Lignes :
         /\ TroisChamps(lignes[l])
         /\ TroisChamps(lignes'[l])
         /\ (lignes'[l].est_active # lignes[l].est_active)
            <=> ((lignes'[l].production_actuelle = None)
                     # (lignes[l].production_actuelle = None))
         /\ (lignes'[l].est_active # lignes[l].est_active)
            <=> ((lignes'[l].heure_debut_production = None)
                     # (lignes[l].heure_debut_production = None))
      ]_vars

\* a terminer_production cleared the three fields of a line, which has a
\* record, while another line is Active with a beverage and a start time
C28_Temoin ==
    /\ appel.op = "terminer_production"
    /\ appel.ret \in Boissons
    /\ lignes[appel.ligne].production_actuelle = None
    /\ lignes[appel.ligne].heure_debut_production = None
    /\ lignes[appel.ligne].historique_production # <<>>
    /\ \E l \in Lignes :
         /\ lignes[l].est_active
         /\ lignes[l].production_actuelle # None
         /\ lignes[l].heure_debut_production # None

\* the list court is the beginning of the list long
Prefixe(court, long) ==
    /\ Len(court) <= Len(long)
    /\ \A i \in DOMAIN court : long[i] = court[i]

\* C29: produire_boisson returns True exactly when production_journaliere
\* became longer by one element, the beverage submitted, placed last; when
\* it returns False the list is unchanged; no call ever removes or reorders
\* the elements the list holds.
C29_RetourEtProduction ==
    [][/\ \A b \in Boissons :
            (appel'.op = "produire_boisson" /\ appel'.boisson = b)
            => /\ appel'.ret \in {"True", "False"}
               /\ appel'.ret = "True"
                  <=> production_journaliere'
                          = Append(production_journaliere, b)
               /\ appel'.ret = "False"
                  => production_journaliere' = production_journaliere
       /\ Prefixe(production_journaliere, production_journaliere')
      ]_vars

\* a produire_boisson returned False after its beverage was started on a
\* line, and production_journaliere still holds only the beverage produced
\* before
C29_Temoin ==
    /\ DernierProduire("False")
    /\ appel.etape = "demarrage"
    /\ Len(production_journaliere) = 1
    /\ production_journaliere[1] # appel.boisson

\* the sum of the lengths of the histories of the lines of the set
RECURSIVE TotalHistoriques(_, _)
TotalHistoriques(ls, ensemble) ==
    IF ensemble = {}
    THEN 0
    ELSE LET l == CHOOSE x \in ensemble : TRUE IN
         Len(ls[l].historique_production)
         + TotalHistoriques(ls, ensemble \ {l})

\* the records of the lines that name the beverage b
RecordsDe(ls, b) ==
    UNION {{<<l, i>> : i \in {j \in DOMAIN ls[l].historique_production :
                                 ls[l].historique_production[j].boisson = b}} :
           l \in Lignes}

\* the lines of the list lp
LignesDe(lp) == {lp[i] : i \in DOMAIN lp}

\* C30: on a factory whose lines, each added once, are driven only through
\* produire_boisson, the length of production_journaliere is the sum of the
\* lengths of the histories of its lines; the history of a line only grows,
\* by one record at the end, in the calls that return True on that line, and
\* every beverage produced has exactly one record.
C30_ProductionEtHistoriques ==
    [][/\ Len(production_journaliere)
              = TotalHistoriques(lignes, LignesDe(lignes_production))
       /\ Len(production_journaliere')
              = TotalHistoriques(lignes', LignesDe(lignes_production'))
       /\ \A l \in Lignes :
            /\ Prefixe(lignes[l].historique_production,
                       lignes'[l].historique_production)
            /\ Len(lignes'[l].historique_production)
                   <= Len(lignes[l].historique_production) + 1
            /\ lignes'[l].historique_production
                   # lignes[l].historique_production
               => /\ appel'.op = "produire_boisson"
                  /\ appel'.ret = "True"
                  /\ l \in LignesAjoutees
       /\ \A b \in Boissons :
            Cardinality(RecordsDe(lignes', b))
                = Cardinality({i \in DOMAIN production_journaliere' :
                                  production_journaliere'[i] = b})
      ]_vars

\* a produire_boisson returned True on the second line of the factory, which
\* has the only record, while the first line is Active and has none
C30_Temoin ==
    /\ DernierProduire("True")
    /\ Len(lignes_production) = 2
    /\ lignes[lignes_production[1]].est_active
    /\ lignes[lignes_production[1]].historique_production = <<>>
    /\ Len(lignes[lignes_production[2]].historique_production) = 1
    /\ Len(production_journaliere) = 1

\* the ingredient the thread p is about to take
IngredientDe(p) == ingredients_de(taches[p].boisson)[taches[p].k]

\* C25: nothing defends produire_boisson against calls interleaved between
\* its steps.  A thread whose check passed and whose next consumption finds
\* too little in the stock returns False from the consumption loop, and a
\* thread whose line, selected as Idle, is Active when it starts returns
\* False from the start; in both cases the step gives nothing back: the
\* stock stays as the thread's earlier consumptions left it, the beverage
\* gets no lot and production_journaliere is unchanged.  A consumption that
\* finds enough takes exactly its quantity and the thread goes on.  The
\* witnesses show that both cases are reached.
C25_SansDefense ==
    [][\A p \in Fils :
         /\ (/\ taches[p].pc = "consommer"
             /\ taches'[p] # taches[p]
             /\ \/ IngredientDe(p).nom \notin DOMAIN stock.ingredients
                \/ stock.ingredients[IngredientDe(p).nom]
                       < IngredientDe(p).quantite)
            => /\ taches'[p].pc = "retour"
               /\ taches'[p].ret = "False"
               /\ taches'[p].etape = "consommation"
               /\ UNCHANGED <<stock, lignes, boissons,
                              production_journaliere>>
         /\ (/\ taches[p].pc = "consommer"
             /\ taches'[p] # taches[p]
             /\ IngredientDe(p).nom \in DOMAIN stock.ingredients
             /\ stock.ingredients[IngredientDe(p).nom]
                    >= IngredientDe(p).quantite)
            => /\ taches'[p].pc \in {"consommer", "demarrer"}
               /\ stock'.ingredients[IngredientDe(p).nom]
                      = stock.ingredients[IngredientDe(p).nom]
                        - IngredientDe(p).quantite
         /\ (/\ taches[p].pc = "demarrer"
             /\ taches'[p] # taches[p]
             /\ lignes[taches[p].ligne].est_active)
            => /\ taches'[p].pc = "retour"
               /\ taches'[p].ret = "False"
               /\ taches'[p].etape = "demarrage"
               /\ UNCHANGED <<stock, lignes, boissons,
                              production_journaliere>>
         /\ taches'[p].ret = "True"
            => taches'[p].boisson \in
                   {production_journaliere'[i] :
                        i \in DOMAIN production_journaliere'}
      ]_vars

\* a thread whose check passed and that took every ingredient of its
\* beverage was refused by the line it had selected as Idle: it returned
\* False, its beverage has no lot and is not in production_journaliere, and
\* the other thread produced its own beverage on that line
C25_Temoin ==
    \E p, q \in Fils :
        /\ taches[p].pc = "retour"
        /\ taches[p].ret = "False"
        /\ taches[p].etape = "demarrage"
        /\ taches[p].k = Len(ingredients_de(taches[p].boisson))
        /\ boissons[taches[p].boisson] = BoissonNeuve
        /\ taches[q].ret = "True"
        /\ taches[q].ligne = taches[p].ligne
        /\ production_journaliere = <<taches[q].boisson>>

\* a thread whose check passed had a consumption fail although its beverage
\* names no ingredient twice, the other thread having taken the ingredient
\* in between
C25_TemoinConsommation ==
    \E p, q \in Fils :
        /\ taches[p].pc = "retour"
        /\ taches[p].etape = "consommation"
        /\ NomsDistincts(ingredients_de(taches[p].boisson))
        /\ taches[q].pc \notin {"repos", "verifier", "choisir"}

====
